---------------------------- MODULE Spec2Model ----------------------------
(***************************************************************************)
(* Model of src/bot.py, the Discord forum thread notifier.                 *)
(*                                                                         *)
(*   SpecMain      main(): ensure_token, load_channel_settings (with       *)
(*                 parse_forum_channel_ids), construction of the client,   *)
(*                 client.run.                                             *)
(*   SpecListener  the running client: on_ready and on_thread_create, the  *)
(*                 handler being a coroutine that suspends at its awaited  *)
(*                 send.                                                   *)
(*   SpecFormat    format_notification as a pure function of the thread.   *)
(*                                                                         *)
(* Python values: a str is a sequence of one-character strings; an         *)
(* Optional value is None (the empty tuple) or Some(v) (a one-tuple).      *)
(***************************************************************************)
EXTENDS Integers, Sequences, FiniteSets, TLC

VARIABLES
    pc,                  \* position of main()
    env,                 \* what main() has read from the process environment
    token,               \* main: token
    forum_channel_ids,   \* main: forum_channel_ids (a list)
    announce_channel_id, \* main: announce_channel_id
    exc,                 \* the exception that left main(), if any
    client,              \* the ForumThreadNotifier, once constructed
    run_with,            \* the argument of client.run, once called
    listener,            \* connection state of the running client
    delivered,           \* the threads of the events dispatched so far
    task,                \* per event: the state of its handler coroutine
    ready,               \* the event loop's FIFO queue of runnable handlers
    sendLog,             \* the calls of announce_channel.send, in call order
    logs,                \* the records written to the logger, in order
    lookups,             \* per event: the calls of guild.get_channel
    fthread,             \* SpecFormat: the thread given to the formatter
    fout                 \* SpecFormat: the formatter's result

mainVars == <<pc, env, token, forum_channel_ids, announce_channel_id, exc,
              client, run_with>>
listenerVars == <<listener, delivered, task, ready, sendLog, logs, lookups>>
formatVars == <<fthread, fout>>
vars == <<mainVars, listenerVars, formatVars>>

----------------------------------------------------------------------------
(* Bounds *)

MaxRawLen == 3      \* longest FORUM_CHANNEL_IDS string
MaxAnnLen == 2      \* longest ANNOUNCE_CHANNEL_ID string
MaxEvents == 3      \* thread-creation events delivered in one run
MaxId == 3          \* largest thread / guild id given to the formatter

----------------------------------------------------------------------------
(* Python values *)

None == <<>>
Some(v) == <<v>>
IsNone(o) == Len(o) = 0
Get(o) == o[1]

\* The characters environment strings are drawn from.
Alphabet == {"0", "1", "a", " ", ",", "-"}
Digits == <<"0", "1", "2", "3", "4", "5", "6", "7", "8", "9">>
DigitSet == {Digits[i] : i \in 1..10}

StringsUpTo(n) == UNION {[1..k -> Alphabet] : k \in 0..n}
\* os.getenv(name): None when unset, else the string
EnvValues(n) == {None} \cup {Some(s) : s \in StringsUpTo(n)}

\* `not x` for an Optional[str]: None and "" are falsy
Falsy(o) == IsNone(o) \/ Len(Get(o)) = 0

SetMin(S) == CHOOSE x \in S : \A y \in S : x <= y
SetMax(S) == CHOOSE x \in S : \A y \in S : x >= y

\* str.strip()
strip(s) ==
    LET keep == {i \in 1..Len(s) : s[i] # " "}
    IN IF keep = {} THEN <<>> ELSE SubSeq(s, SetMin(keep), SetMax(keep))

\* str.split(","): always at least one chunk, empty chunks kept
RECURSIVE split(_)
split(s) ==
    LET commas == {i \in 1..Len(s) : s[i] = ","}
    IN IF commas = {} THEN <<s>>
       ELSE LET i == SetMin(commas)
            IN <<SubSeq(s, 1, i - 1)>> \o split(SubSeq(s, i + 1, Len(s)))

DigitValue(c) == (CHOOSE i \in 1..10 : Digits[i] = c) - 1

RECURSIVE DecValue(_)
DecValue(ds) ==
    IF Len(ds) = 0 THEN 0
    ELSE 10 * DecValue(SubSeq(ds, 1, Len(ds) - 1)) + DigitValue(ds[Len(ds)])

\* int(s) for a str: surrounding whitespace ignored, an optional sign, then
\* one or more decimal digits; anything else is a ValueError (ok = FALSE).
\* Arbitrary precision: no width is imposed.
IntOfStr(s) ==
    LET t == strip(s)
        signed == Len(t) > 0 /\ t[1] \in {"-", "+"}
        ds == IF signed THEN SubSeq(t, 2, Len(t)) ELSE t
        good == Len(ds) > 0 /\ \A i \in 1..Len(ds) : ds[i] \in DigitSet
    IN IF ~good THEN [ok |-> FALSE, val |-> 0]
       ELSE [ok |-> TRUE,
             val |-> IF signed /\ t[1] = "-" THEN 0 - DecValue(ds)
                     ELSE DecValue(ds)]

\* str(m) for a natural number m: its decimal numeral
RECURSIVE Numeral(_)
Numeral(m) ==
    IF m < 10 THEN <<Digits[m + 1]>>
    ELSE Numeral(m \div 10) \o <<Digits[(m % 10) + 1]>>

\* frozenset(seq)
frozenset(xs) == {xs[i] : i \in 1..Len(xs)}

----------------------------------------------------------------------------
(* Exceptions raised by the configuration functions *)

Exception(type, msg, value) == [type |-> type, msg |-> msg, value |-> value]

TokenNotSet == Exception("RuntimeError", "DISCORD_BOT_TOKEN is not set", <<>>)
ForumIdsNotSet == Exception("RuntimeError", "FORUM_CHANNEL_IDS is not set", <<>>)
ForumIdsNoValidId == Exception("ValueError", "FORUM_CHANNEL_IDS has no valid id", <<>>)
ForumIdsNonNumeric(stripped) ==
    Exception("ValueError", "FORUM_CHANNEL_IDS contains a non-numeric value", stripped)
AnnounceNotSet == Exception("RuntimeError", "ANNOUNCE_CHANNEL_ID is not set", <<>>)
AnnounceNonNumeric ==
    Exception("ValueError", "ANNOUNCE_CHANNEL_ID must be a numeric channel id", <<>>)

Returned(v) == [ok |-> TRUE, val |-> v, exc |-> None]
Raised(e) == [ok |-> FALSE, val |-> None, exc |-> Some(e)]

----------------------------------------------------------------------------
(* ensure_token *)

ensure_token_NoneOnly(token_env) ==
    IF IsNone(token_env) THEN Raised(TokenNotSet) ELSE Returned(Get(token_env))

ensure_token(token_env) ==
    IF Falsy(token_env) THEN Raised(TokenNotSet) ELSE Returned(Get(token_env))

----------------------------------------------------------------------------
(* parse_forum_channel_ids *)

\* the for loop over the chunks, from chunk i on, with the ids found so far
RECURSIVE ParseChunks(_, _, _)
ParseChunks(chunks, i, ids) ==
    IF i > Len(chunks)
    THEN IF Len(ids) = 0 THEN Raised(ForumIdsNoValidId) ELSE Returned(ids)
    ELSE LET stripped == strip(chunks[i])
         IN IF Len(stripped) = 0 THEN ParseChunks(chunks, i + 1, ids)
            ELSE LET n == IntOfStr(stripped)
                 IN IF n.ok THEN ParseChunks(chunks, i + 1, Append(ids, n.val))
                    ELSE Raised(ForumIdsNonNumeric(stripped))

\* bug: a chunk that is not a number is skipped instead of reported
RECURSIVE ParseChunks_SkipInvalid(_, _, _)
ParseChunks_SkipInvalid(chunks, i, ids) ==
    IF i > Len(chunks)
    THEN IF Len(ids) = 0 THEN Raised(ForumIdsNoValidId) ELSE Returned(ids)
    ELSE LET stripped == strip(chunks[i])
             n == IntOfStr(stripped)
         IN IF Len(stripped) > 0 /\ n.ok
            THEN ParseChunks_SkipInvalid(chunks, i + 1, Append(ids, n.val))
            ELSE ParseChunks_SkipInvalid(chunks, i + 1, ids)

parse_forum_channel_ids_SkipInvalid(raw_ids) ==
    ParseChunks_SkipInvalid(split(raw_ids), 1, <<>>)

\* bug: the list is returned as soon as it holds one id
RECURSIVE ParseChunks_FirstOnly(_, _, _)
ParseChunks_FirstOnly(chunks, i, ids) ==
    IF i > Len(chunks) \/ Len(ids) > 0
    THEN IF Len(ids) = 0 THEN Raised(ForumIdsNoValidId) ELSE Returned(ids)
    ELSE LET stripped == strip(chunks[i])
         IN IF Len(stripped) = 0 THEN ParseChunks_FirstOnly(chunks, i + 1, ids)
            ELSE LET n == IntOfStr(stripped)
                 IN IF n.ok
                    THEN ParseChunks_FirstOnly(chunks, i + 1, Append(ids, n.val))
                    ELSE Raised(ForumIdsNonNumeric(stripped))

parse_forum_channel_ids_FirstOnly(raw_ids) ==
    ParseChunks_FirstOnly(split(raw_ids), 1, <<>>)

parse_forum_channel_ids(raw_ids) == ParseChunks(split(raw_ids), 1, <<>>)

----------------------------------------------------------------------------
(* load_channel_settings *)

\* The second half: ANNOUNCE_CHANNEL_ID, read once the forum ids are parsed.
LoadAnnounce(forum_ids, announce_channel_raw) ==
    IF Falsy(announce_channel_raw) THEN Raised(AnnounceNotSet)
    ELSE LET n == IntOfStr(Get(announce_channel_raw))
         IN IF n.ok
            THEN Returned([forum_ids |-> forum_ids, announce_channel_id |-> n.val])
            ELSE Raised(AnnounceNonNumeric)

\* The first half: FORUM_CHANNEL_IDS.  Returns the parsed list, or raises.
LoadForumIds_NoneOnly(forum_ids_raw) ==
    IF IsNone(forum_ids_raw) THEN Raised(ForumIdsNotSet)
    ELSE parse_forum_channel_ids(Get(forum_ids_raw))

LoadForumIds(forum_ids_raw) ==
    IF Falsy(forum_ids_raw) THEN Raised(ForumIdsNotSet)
    ELSE parse_forum_channel_ids(Get(forum_ids_raw))

\* The whole function, given what os.getenv returns for the two variables;
\* the second variable is read only when the first half has not raised.
load_channel_settings(forum_ids_raw, announce_channel_raw) ==
    LET forum_ids == LoadForumIds(forum_ids_raw)
    IN IF ~forum_ids.ok THEN forum_ids
       ELSE LoadAnnounce(forum_ids.val, announce_channel_raw)

----------------------------------------------------------------------------
(* ForumThreadNotifier.__init__ *)

NewClient(ids, announce) ==
    [_forum_channel_ids |-> frozenset(ids), _announce_channel_id |-> announce]

----------------------------------------------------------------------------
(* main() *)

Unread == [read |-> FALSE, v |-> None]
Read(v) == [read |-> TRUE, v |-> v]

TokenValues == {None, Some(<<>>), Some(<<" ">>), Some(<<"t">>)}

ListenerIdle ==
    /\ listener = "Disconnected"
    /\ delivered = <<>>
    /\ task = <<>>
    /\ ready = <<>>
    /\ sendLog = <<>>
    /\ logs = <<>>
    /\ lookups = <<>>

FormatIdle ==
    /\ fthread = None
    /\ fout = None

InitMain ==
    /\ pc = "start"
    /\ env = [token |-> Unread, forum |-> Unread, announce |-> Unread]
    /\ token = None
    /\ forum_channel_ids = <<>>
    /\ announce_channel_id = None
    /\ exc = None
    /\ client = None
    /\ run_with = None
    /\ ListenerIdle
    /\ FormatIdle

\* token = ensure_token()
MainEnsureToken ==
    /\ pc = "start"
    /\ \E t \in TokenValues :
         LET r == ensure_token(t)
         IN /\ env' = [env EXCEPT !.token = Read(t)]
            /\ IF r.ok
               THEN /\ token' = Some(r.val)
                    /\ pc' = "token"
                    /\ exc' = exc
               ELSE /\ token' = token
                    /\ pc' = "failed"
                    /\ exc' = r.exc
    /\ UNCHANGED <<forum_channel_ids, announce_channel_id, client, run_with>>
    /\ UNCHANGED <<listenerVars, formatVars>>

\* forum_channel_ids, announce_channel_id = load_channel_settings()
MainLoadChannelSettings ==
    /\ pc = "token"
    /\ \E f \in EnvValues(MaxRawLen) :
         LET rf == LoadForumIds(f)
         IN IF ~rf.ok
            THEN /\ env' = [env EXCEPT !.forum = Read(f)]
                 /\ pc' = "failed"
                 /\ exc' = rf.exc
                 /\ UNCHANGED <<forum_channel_ids, announce_channel_id>>
            ELSE \E a \in EnvValues(MaxAnnLen) :
                   LET r == load_channel_settings(f, a)
                   IN /\ env' = [env EXCEPT !.forum = Read(f), !.announce = Read(a)]
                      /\ IF r.ok
                         THEN /\ forum_channel_ids' = r.val.forum_ids
                              /\ announce_channel_id' = Some(r.val.announce_channel_id)
                              /\ pc' = "loaded"
                              /\ exc' = exc
                         ELSE /\ pc' = "failed"
                              /\ exc' = r.exc
                              /\ UNCHANGED <<forum_channel_ids, announce_channel_id>>
    /\ UNCHANGED <<token, client, run_with>>
    /\ UNCHANGED <<listenerVars, formatVars>>

\* intents = build_intents(); client = ForumThreadNotifier(...)
MainConstruct ==
    /\ pc = "loaded"
    /\ client' = Some(NewClient(forum_channel_ids, Get(announce_channel_id)))
    /\ pc' = "constructed"
    /\ UNCHANGED <<env, token, forum_channel_ids, announce_channel_id, exc, run_with>>
    /\ UNCHANGED <<listenerVars, formatVars>>

\* client.run(token)
MainRun ==
    /\ pc = "constructed"
    /\ run_with' = token
    /\ pc' = "running"
    /\ listener' = "Connecting"
    /\ UNCHANGED <<env, token, forum_channel_ids, announce_channel_id, exc, client>>
    /\ UNCHANGED <<delivered, task, ready, sendLog, logs, lookups>>
    /\ UNCHANGED formatVars

NextMain ==
    \/ MainEnsureToken
    \/ MainLoadChannelSettings
    \/ MainConstruct
    \/ MainRun

SpecMain == InitMain /\ [][NextMain]_vars

----------------------------------------------------------------------------
(* format_notification *)

\* A message is a str; the fixed literals of the template are kept as single
\* tokens, numbers are written digit by digit.
Header == "**new thread created**\n"
UnknownAuthor == "unknown-author"
UrlBase == "https://discord.com/channels/"

\* f"{n}" for a non-negative int
FormatInt(n) == Numeral(n)

\* `if thread.owner_id`: None and 0 are falsy
OwnerTruthy(owner_id) == ~IsNone(owner_id) /\ Get(owner_id) # 0

Mention(id) == <<"<@">> \o FormatInt(id) \o <<">">>
ThreadUrl(guild_id, thread_id) ==
    <<UrlBase>> \o FormatInt(guild_id) \o <<"/">> \o FormatInt(thread_id)

format_notification(thread) ==
    LET thread_url == ThreadUrl(thread.guild.id, thread.id)
        thread_owner == IF OwnerTruthy(thread.owner_id)
                        THEN Mention(Get(thread.owner_id))
                        ELSE <<UnknownAuthor>>
    IN <<Header>> \o thread.name \o thread_owner \o <<"\n">> \o thread_url

----------------------------------------------------------------------------
(* ForumThreadNotifier.on_thread_create *)

\* guild.get_channel(id): the channel of the guild's cache, or None
get_channel(guild, id) ==
    IF id \in guild.channels THEN Some([id |-> id, guild |-> guild.id]) ELSE None

LogRecord(level, what, thread) == [level |-> level, what |-> what, thread |-> thread.id]

\* What one run of the coroutine does, from its entry (stage 0) or from the
\* completion of its stage-th await (io: how the awaited operation ended), up
\* to its next await, its return or its raise:
\*   lookups  calls of guild.get_channel
\*   logs     records written
\*   send     the call of announce_channel.send, if made
\*   close    whether the client was closed
\*   next     "await", "return" or "raise"
Step(lookups_, logs_, send_, next_) ==
    [lookups |-> lookups_, logs |-> logs_, send |-> send_, close |-> FALSE,
     next |-> next_]

\* bug: the channel is resolved before the parent is checked
on_thread_create_ResolveFirst(self, thread, stage, io) ==
    LET announce_channel == get_channel(thread.guild, self._announce_channel_id)
    IN IF stage = 0
       THEN IF thread.parent_id \notin self._forum_channel_ids
            THEN Step(1, <<LogRecord("DEBUG", "ignored", thread)>>, None, "return")
            ELSE IF IsNone(announce_channel)
            THEN Step(1, <<LogRecord("ERROR", "no announce channel", thread)>>,
                      None, "return")
            ELSE Step(1, <<>>,
                      Some([channel |-> Get(announce_channel),
                            message |-> format_notification(thread)]), "await")
       ELSE IF io = "ok"
            THEN Step(0, <<LogRecord("INFO", "notified", thread)>>, None, "return")
            ELSE Step(0, <<>>, None, "raise")

\* bug: no check of the looked-up channel: None.send raises AttributeError
on_thread_create_NoNoneCheck(self, thread, stage, io) ==
    LET announce_channel == get_channel(thread.guild, self._announce_channel_id)
    IN IF stage = 0
       THEN IF thread.parent_id \notin self._forum_channel_ids
            THEN Step(0, <<LogRecord("DEBUG", "ignored", thread)>>, None, "return")
            ELSE IF IsNone(announce_channel)
            THEN Step(1, <<>>, None, "raise")
            ELSE Step(1, <<>>,
                      Some([channel |-> Get(announce_channel),
                            message |-> format_notification(thread)]), "await")
       ELSE IF io = "ok"
            THEN Step(0, <<LogRecord("INFO", "notified", thread)>>, None, "return")
            ELSE Step(0, <<>>, None, "raise")

\* bug: a failed resolution closes the client instead of dropping the event
on_thread_create_CloseOnFailure(self, thread, stage, io) ==
    LET announce_channel == get_channel(thread.guild, self._announce_channel_id)
    IN IF stage = 0
       THEN IF thread.parent_id \notin self._forum_channel_ids
            THEN Step(0, <<LogRecord("DEBUG", "ignored", thread)>>, None, "return")
            ELSE IF IsNone(announce_channel)
            THEN [Step(1, <<LogRecord("ERROR", "no announce channel", thread)>>,
                       None, "return") EXCEPT !.close = TRUE]
            ELSE Step(1, <<>>,
                      Some([channel |-> Get(announce_channel),
                            message |-> format_notification(thread)]), "await")
       ELSE IF io = "ok"
            THEN Step(0, <<LogRecord("INFO", "notified", thread)>>, None, "return")
            ELSE Step(0, <<>>, None, "raise")

\* bug: the channel is fetched with an awaited request before the send
on_thread_create_FetchFirst(self, thread, stage, io) ==
    LET announce_channel == get_channel(thread.guild, self._announce_channel_id)
    IN IF stage = 0
       THEN IF thread.parent_id \notin self._forum_channel_ids
            THEN Step(0, <<LogRecord("DEBUG", "ignored", thread)>>, None, "return")
            ELSE Step(1, <<>>, None, "await")
       ELSE IF stage = 1
       THEN IF io # "ok" \/ IsNone(announce_channel)
            THEN Step(0, <<LogRecord("ERROR", "no announce channel", thread)>>,
                      None, "return")
            ELSE Step(0, <<>>,
                      Some([channel |-> Get(announce_channel),
                            message |-> format_notification(thread)]), "await")
       ELSE IF io = "ok"
            THEN Step(0, <<LogRecord("INFO", "notified", thread)>>, None, "return")
            ELSE Step(0, <<>>, None, "raise")

\* bug: the success record is written before the send is awaited
on_thread_create_LogFirst(self, thread, stage, io) ==
    LET announce_channel == get_channel(thread.guild, self._announce_channel_id)
    IN IF stage = 0
       THEN IF thread.parent_id \notin self._forum_channel_ids
            THEN Step(0, <<LogRecord("DEBUG", "ignored", thread)>>, None, "return")
            ELSE IF IsNone(announce_channel)
            THEN Step(1, <<LogRecord("ERROR", "no announce channel", thread)>>,
                      None, "return")
            ELSE Step(1, <<LogRecord("INFO", "notified", thread)>>,
                      Some([channel |-> Get(announce_channel),
                            message |-> format_notification(thread)]), "await")
       ELSE IF io = "ok"
            THEN Step(0, <<>>, None, "return")
            ELSE Step(0, <<>>, None, "raise")

on_thread_create(self, thread, stage, io) ==
    LET announce_channel == get_channel(thread.guild, self._announce_channel_id)
    IN IF stage = 0
       THEN IF thread.parent_id \notin self._forum_channel_ids
            THEN Step(0, <<LogRecord("DEBUG", "ignored", thread)>>, None, "return")
            ELSE IF IsNone(announce_channel)
            THEN Step(1, <<LogRecord("ERROR", "no announce channel", thread)>>,
                      None, "return")
            ELSE Step(1, <<>>,
                      Some([channel |-> Get(announce_channel),
                            message |-> format_notification(thread)]), "await")
       ELSE \* resumed from `await announce_channel.send(message)`
            IF io = "ok"
            THEN Step(0, <<LogRecord("INFO", "notified", thread)>>, None, "return")
            ELSE Step(0, <<>>, None, "raise")

----------------------------------------------------------------------------
(* The running client *)

\* The environment the listener runs are started with.
ListenerForumRaw == <<"1", ",", "0">>
ListenerAnnounceRaw == <<"1", "1">>
ListenerToken == <<"t">>

\* The thread of the k-th event.
EventThreads(k) ==
    [id : {k},
     name : {<<"a">>},
     parent_id : {1, 10},
     owner_id : {None, Some(7)},
     guild : [id : {1}, channels : {{}, {11}}]]

\* main() has called client.run with the listener's configuration
InitListener ==
    LET settings == load_channel_settings(Some(ListenerForumRaw),
                                          Some(ListenerAnnounceRaw)).val
    IN /\ pc = "running"
       /\ env = [token |-> Read(Some(ListenerToken)),
                 forum |-> Read(Some(ListenerForumRaw)),
                 announce |-> Read(Some(ListenerAnnounceRaw))]
       /\ token = Some(ensure_token(Some(ListenerToken)).val)
       /\ forum_channel_ids = settings.forum_ids
       /\ announce_channel_id = Some(settings.announce_channel_id)
       /\ exc = None
       /\ client = Some(NewClient(settings.forum_ids, settings.announce_channel_id))
       /\ run_with = token
       /\ listener = "Connecting"
       /\ delivered = <<>>
       /\ task = <<>>
       /\ ready = <<>>
       /\ sendLog = <<>>
       /\ logs = <<>>
       /\ lookups = <<>>
       /\ FormatIdle

\* on_ready: the login is logged, nothing else
OnReady ==
    /\ listener = "Connecting"
    /\ listener' = "Ready"
    /\ logs' = Append(logs, [level |-> "INFO", what |-> "logged in", thread |-> 0])
    /\ UNCHANGED <<delivered, task, ready, sendLog, lookups>>
    /\ UNCHANGED <<mainVars, formatVars>>

\* The client receives a thread-creation event and schedules the handler
\* coroutine as a task of the event loop.
Dispatch ==
    /\ listener = "Ready"
    /\ Len(delivered) < MaxEvents
    /\ \E thread \in EventThreads(Len(delivered) + 1) :
         delivered' = Append(delivered, thread)
    /\ task' = Append(task, [state |-> "scheduled", stage |-> 0, io |-> "none",
                             after_raise |-> \E j \in 1..Len(task) :
                                                 task[j].state = "raised"])
    /\ ready' = Append(ready, Len(delivered) + 1)
    /\ lookups' = Append(lookups, 0)
    /\ UNCHANGED <<listener, sendLog, logs>>
    /\ UNCHANGED <<mainVars, formatVars>>

\* The event loop runs the handler at the head of its queue up to the
\* handler's next await, its return or its raise.  An exception that leaves
\* the handler ends that task only: ForumThreadNotifier inherits the client's
\* event runner, which reports it and goes on.
RunHandler ==
    /\ ready # <<>>
    /\ LET k == Head(ready)
           out == on_thread_create(Get(client), delivered[k], task[k].stage,
                                   task[k].io)
       IN /\ task' = [task EXCEPT ![k] =
                        [@ EXCEPT !.state = CASE out.next = "await" -> "awaiting"
                                              [] out.next = "return" -> "returned"
                                              [] OTHER -> "raised"]]
          /\ lookups' = [lookups EXCEPT ![k] = @ + out.lookups]
          /\ logs' = logs \o out.logs
          /\ sendLog' = IF IsNone(out.send) THEN sendLog
                        ELSE Append(sendLog, [event |-> k,
                                              channel |-> Get(out.send).channel,
                                              message |-> Get(out.send).message])
          /\ listener' = IF out.close THEN "Closed" ELSE listener
    /\ ready' = Tail(ready)
    /\ UNCHANGED delivered
    /\ UNCHANGED <<mainVars, formatVars>>

\* The operation a handler awaits ends, successfully or with an error, and
\* the handler becomes runnable again.
AwaitCompletes ==
    \E k \in 1..Len(task) : \E result \in {"ok", "error"} :
        /\ task[k].state = "awaiting"
        /\ task' = [task EXCEPT ![k] = [@ EXCEPT !.state = "resumable",
                                                 !.stage = @ + 1,
                                                 !.io = result]]
        /\ ready' = Append(ready, k)
        /\ UNCHANGED <<listener, delivered, sendLog, logs, lookups>>
        /\ UNCHANGED <<mainVars, formatVars>>

NextListener ==
    \/ OnReady
    \/ Dispatch
    \/ RunHandler
    \/ AwaitCompletes

SpecListener == InitListener /\ [][NextListener]_vars

----------------------------------------------------------------------------
(* The formatter alone *)

FormatThreads ==
    [id : 1..MaxId,
     name : {<<"a">>, <<"a", "b">>},
     parent_id : {1},
     owner_id : {None} \cup {Some(i) : i \in 0..MaxId},
     guild : [id : 1..MaxId, channels : {{}}]]

InitFormat ==
    /\ pc = "start"
    /\ env = [token |-> Unread, forum |-> Unread, announce |-> Unread]
    /\ token = None
    /\ forum_channel_ids = <<>>
    /\ announce_channel_id = None
    /\ exc = None
    /\ client = None
    /\ run_with = None
    /\ ListenerIdle
    /\ fthread \in {Some(t) : t \in FormatThreads}
    /\ fout = None

Format ==
    /\ IsNone(fout)
    /\ fout' = Some(format_notification(Get(fthread)))
    /\ UNCHANGED fthread
    /\ UNCHANGED <<mainVars, listenerVars>>

NextFormat == Format

SpecFormat == InitFormat /\ [][NextFormat]_vars

----------------------------------------------------------------------------
(* Vocabulary of the configuration claims, stated on the raw strings *)

\* The comma-separated segments of s, as pairs <<first, last>> of positions
\* (last = first - 1 for an empty segment).
Segments(s) ==
    {p \in (1..Len(s) + 1) \X (0..Len(s)) :
        /\ p[1] <= p[2] + 1
        /\ p[1] = 1 \/ s[p[1] - 1] = ","
        /\ p[2] = Len(s) \/ s[p[2] + 1] = ","
        /\ \A k \in p[1]..p[2] : s[k] # ","}

Trimmed(s, p) == strip(SubSeq(s, p[1], p[2]))

\* an optional sign followed by one or more decimal digits
NumeralShape(t) ==
    /\ Len(t) > 0
    /\ LET body == IF t[1] \in {"-", "+"} THEN Tail(t) ELSE t
       IN Len(body) > 0 /\ \A i \in 1..Len(body) : body[i] \in DigitSet

\* the trimmed segment t is a way of writing the integer n
Denotes(t, n) ==
    /\ NumeralShape(t)
    /\ LET body == IF t[1] \in {"-", "+"} THEN Tail(t) ELSE t
           num == Numeral(IF n < 0 THEN 0 - n ELSE n)
           pad == Len(body) - Len(num)
       IN /\ n < 0 => t[1] = "-"
          /\ t[1] = "-" => n <= 0
          /\ pad >= 0
          /\ SubSeq(body, pad + 1, Len(body)) = num
          /\ \A i \in 1..pad : body[i] = "0"

NonEmptySegments(s) == {p \in Segments(s) : Len(Trimmed(s, p)) > 0}
NonNumericSegments(s) == {p \in NonEmptySegments(s) : ~NumeralShape(Trimmed(s, p))}
FirstNonNumeric(s) ==
    LET bad == NonNumericSegments(s)
    IN Trimmed(s, CHOOSE p \in bad : \A q \in bad : p[1] <= q[1])

ForumRead == env.forum.read
ForumRaw == env.forum.v
\* the list variable is unset, empty, or holds only commas and whitespace
NoChannelInput(o) == Falsy(o) \/ NonEmptySegments(Get(o)) = {}
ForumInvalid(o) == NoChannelInput(o) \/ NonNumericSegments(Get(o)) # {}
AnnounceInvalid(o) == IsNone(o) \/ ~NumeralShape(strip(Get(o)))

InvalidConfiguration ==
    \/ env.token.read /\ Falsy(env.token.v)
    \/ env.forum.read /\ ForumInvalid(env.forum.v)
    \/ env.announce.read /\ AnnounceInvalid(env.announce.v)

ValidConfiguration ==
    /\ env.token.read /\ ~Falsy(env.token.v)
    /\ env.forum.read /\ ~ForumInvalid(env.forum.v)
    /\ env.announce.read /\ ~AnnounceInvalid(env.announce.v)

----------------------------------------------------------------------------
(* Claims about main() and the configuration loader *)

\* C3: with an absent or empty credential, a channel list that is absent,
\* empty, holds a non-numeric token or yields no id, or an announcement id
\* that is absent or non-numeric, main() fails with an error, and neither the
\* construction of the listener nor client.run ever happens; a constructed
\* or running client always has a complete, valid configuration.
C3_InvalidConfigNeverStarts ==
    /\ InvalidConfiguration =>
         /\ pc = "failed"
         /\ ~IsNone(exc)
         /\ IsNone(client)
         /\ IsNone(run_with)
    /\ (~IsNone(client) \/ ~IsNone(run_with)) => ValidConfiguration
    /\ ~IsNone(run_with) => ~IsNone(client) /\ ~Falsy(run_with)

\* main() failed at the last configuration value, the announcement id
C3_Witness ==
    /\ pc = "failed"
    /\ env.announce.read
    /\ ~IsNone(env.announce.v)
    /\ AnnounceInvalid(env.announce.v)
    /\ IsNone(client)

\* C4 as stated: an unset, an empty and a separators-only channel list all
\* fail with the one "no channels configured" error.
C4_Original_SameErrorKind ==
    (ForumRead /\ NoChannelInput(ForumRaw)) =>
        pc = "failed" /\ exc = Some(ForumIdsNoValidId)

\* C4 as amended: in all three cases loading fails and never yields an empty
\* monitored set, but an unset or empty variable is reported by the
\* RuntimeError "not set" and a separators-only one by the ValueError "no
\* valid id".
C4_NoChannelsAlwaysFails ==
    (ForumRead /\ NoChannelInput(ForumRaw)) =>
        /\ pc = "failed"
        /\ forum_channel_ids = <<>>
        /\ IsNone(client)
        /\ exc = IF Falsy(ForumRaw) THEN Some(ForumIdsNotSet)
                 ELSE Some(ForumIdsNoValidId)

\* the separators-only case, reported by parse_forum_channel_ids
C4_Witness ==
    /\ ForumRead
    /\ ~Falsy(ForumRaw)
    /\ NoChannelInput(ForumRaw)
    /\ \E i \in 1..Len(Get(ForumRaw)) : Get(ForumRaw)[i] = ","
    /\ pc = "failed"

\* C5: a channel list with a trimmed, non-empty, non-numeric segment fails
\* with the invalid-id error naming the first such segment from the left,
\* whatever valid ids surround it, and no list of ids is returned.
C5_FirstNonNumericReported ==
    (ForumRead /\ ~Falsy(ForumRaw) /\ NonNumericSegments(Get(ForumRaw)) # {}) =>
        /\ pc = "failed"
        /\ exc = Some(ForumIdsNonNumeric(FirstNonNumeric(Get(ForumRaw))))
        /\ forum_channel_ids = <<>>
        /\ IsNone(client)

\* a valid id precedes the reported segment
C5_Witness ==
    /\ ForumRead
    /\ ~Falsy(ForumRaw)
    /\ pc = "failed"
    /\ \E bad \in NonNumericSegments(Get(ForumRaw)) :
         \E good \in NonEmptySegments(Get(ForumRaw)) :
            /\ good[1] < bad[1]
            /\ NumeralShape(Trimmed(Get(ForumRaw), good))

\* C6: after a successful load the listener's monitored set is exactly the
\* set of integers written by the trimmed, non-empty segments of the list,
\* and it is not empty.
C6_MonitoredSetIsSegments ==
    ~IsNone(client) =>
        LET raw == Get(ForumRaw)
            monitored == Get(client)._forum_channel_ids
        IN /\ monitored # {}
           /\ \A p \in NonEmptySegments(raw) :
                \E n \in monitored : Denotes(Trimmed(raw, p), n)
           /\ \A n \in monitored :
                \E p \in NonEmptySegments(raw) : Denotes(Trimmed(raw, p), n)

\* two segments that write the same id collapse into one member
C6_Witness ==
    /\ pc = "running"
    /\ Cardinality(Get(client)._forum_channel_ids) = 1
    /\ Cardinality(NonEmptySegments(Get(ForumRaw))) >= 2

----------------------------------------------------------------------------
(* Vocabulary of the listener claims *)

Events == 1..Len(delivered)
Monitored(k) == delivered[k].parent_id \in Get(client)._forum_channel_ids
Resolvable(k) == Get(client)._announce_channel_id \in delivered[k].guild.channels

SendsOf(k) == SelectSeq(sendLog, LAMBDA e : e.event = k)
LogsOf(k) == SelectSeq(logs, LAMBDA r : r.thread = k)
Levels(records) == [i \in 1..Len(records) |-> records[i].level]

\* the handler of event k has begun / has ended
Handled(k) == task[k].state # "scheduled"
Finished(k) == task[k].state \in {"returned", "raised"}

----------------------------------------------------------------------------
(* Claims about on_thread_create *)

\* C1: an event whose parent channel is not monitored causes no send and no
\* channel resolution; its handler returns normally, having written one
\* debug record and nothing else.
C1_UnmonitoredIgnored ==
    \A k \in Events :
        ~Monitored(k) =>
            /\ SendsOf(k) = <<>>
            /\ lookups[k] = 0
            /\ task[k].state \in {"scheduled", "returned"}
            /\ Levels(LogsOf(k)) = IF Handled(k) THEN <<"DEBUG">> ELSE <<>>

\* an unmonitored event was handled in a guild where the announcement channel
\* would have resolved
C1_Witness ==
    \E k \in Events : ~Monitored(k) /\ Resolvable(k) /\ task[k].state = "returned"

\* C2: a monitored event whose announcement channel does not resolve causes
\* no send and no exception; the lookup is made once and only an error
\* record is written.
C2_UnresolvedDropped ==
    \A k \in Events :
        (Monitored(k) /\ ~Resolvable(k)) =>
            /\ SendsOf(k) = <<>>
            /\ task[k].state \in {"scheduled", "returned"}
            /\ lookups[k] = IF Handled(k) THEN 1 ELSE 0
            /\ Levels(LogsOf(k)) = IF Handled(k) THEN <<"ERROR">> ELSE <<>>

C2_Witness ==
    \E k \in Events : Monitored(k) /\ ~Resolvable(k) /\ task[k].state = "returned"

\* C7: whatever happened to earlier events (filtered, unresolved, failed
\* send), the listener stays Ready, the handler queue is never blocked by a
\* finished handler, and every monitored event with a resolvable channel
\* whose handler has run has had its send issued.
C7_FailuresIsolated ==
    /\ listener \in {"Connecting", "Ready"}
    /\ delivered # <<>> => listener = "Ready"
    /\ \A i \in 1..Len(ready) : task[ready[i]].state \in {"scheduled", "resumable"}
    /\ \A k \in Events :
         (Handled(k) /\ Monitored(k) /\ Resolvable(k)) => Len(SendsOf(k)) = 1

\* an event delivered after an earlier send had failed, and after a dropped
\* event, has its send issued
C7_Witness ==
    \E k \in Events :
        /\ task[k].after_raise
        /\ \E j \in 1..(k - 1) : task[j].state = "returned" /\ SendsOf(j) = <<>>
        /\ Len(SendsOf(k)) = 1
        /\ listener = "Ready"

\* C9 as stated: the handling of an event completes before the handling of
\* the next one begins.
C9_Original_OneAtATime ==
    \A j, k \in Events : (j < k /\ Handled(k)) => Finished(j)

\* C9 as amended: handlers begin in delivery order and each runs without
\* interleaving up to its return or its awaited send, so sends are issued in
\* delivery order; a handler that has begun and not ended is suspended at
\* the awaited send, its send already issued, and does not hold back the
\* handlers of later events.
C9_StartAndSendInOrder ==
    /\ \A j, k \in Events : (j < k /\ Handled(k)) => Handled(j)
    /\ \A a, b \in 1..Len(sendLog) : a < b => sendLog[a].event < sendLog[b].event
    /\ \A k \in Events :
         (Handled(k) /\ ~Finished(k)) =>
             /\ task[k].state \in {"awaiting", "resumable"}
             /\ Len(SendsOf(k)) = 1

\* two handlers are suspended at their awaited sends at the same time
C9_Witness ==
    \E j, k \in Events :
        j < k /\ task[j].state = "awaiting" /\ task[k].state = "awaiting"

\* C10: an event causes at most one send: exactly one, of
\* format_notification(thread) to the channel resolved from
\* announce_channel_id, when the parent is monitored and the channel
\* resolves, else none; a failed send is not retried; the success record is
\* written only after the send completed successfully.
C10_AtMostOneSend ==
    \A k \in Events :
        LET sends == SendsOf(k)
            infos == SelectSeq(LogsOf(k), LAMBDA r : r.level = "INFO")
        IN /\ Len(sends) <= 1
           /\ Len(sends) = IF Handled(k) /\ Monitored(k) /\ Resolvable(k)
                           THEN 1 ELSE 0
           /\ \A i \in 1..Len(sends) :
                /\ sends[i].message = format_notification(delivered[k])
                /\ sends[i].channel.id = Get(client)._announce_channel_id
                /\ sends[i].channel.guild = delivered[k].guild.id
           /\ task[k].state = "raised" =>
                task[k].io = "error" /\ Len(sends) = 1 /\ infos = <<>>
           /\ Len(infos) <= 1
           /\ Len(infos) = 1 =>
                task[k].state = "returned" /\ task[k].io = "ok" /\ Len(sends) = 1

\* a send failed, and its event still has exactly one send
C10_Witness ==
    \E k \in Events : task[k].state = "raised" /\ Len(SendsOf(k)) = 1

----------------------------------------------------------------------------
(* Claim about format_notification *)

Contains(s, sub) ==
    \E i \in 0..(Len(s) - Len(sub)) : SubSeq(s, i + 1, i + Len(sub)) = sub

\* C8: the output holds the mention <@owner_id> when owner_id is present and
\* the unknown-author placeholder when it is absent, never both and never
\* neither, and always the link .../channels/{guild_id}/{thread_id}.
C8_MentionIffOwnerPresent ==
    ~IsNone(fout) =>
        LET thread == Get(fthread)
            out == Get(fout)
        IN /\ ~IsNone(thread.owner_id) =>
                /\ Contains(out, Mention(Get(thread.owner_id)))
                /\ ~Contains(out, <<UnknownAuthor>>)
           /\ IsNone(thread.owner_id) =>
                /\ Contains(out, <<UnknownAuthor>>)
                /\ ~Contains(out, <<"<@">>)
           /\ Contains(out, ThreadUrl(thread.guild.id, thread.id))

=============================================================================
